---- MODULE Spec2Model ----
(***************************************************************************)
(* State-machine model of two BLAS kernels of blasjs:                      *)
(*   chbmv  (src/lib/l2/complex/chbmv.ts)  y := alpha*A*x + beta*y         *)
(*   strmm  (src/lib/l3/single/strmm.ts)   B := alpha*op(A)*B | B*op(A)    *)
(* A call is loaded from "idle", then runs through the routine's checks,   *)
(* its quick returns and one action per iteration of its outer loop.       *)
(* Numbers are integers (exactly representable in the typed arrays).       *)
(***************************************************************************)
EXTENDS Integers, Sequences, FiniteSets, TLC

VARIABLES routine, pc, err,
          side, uplo, transA, diag, m, n, k, alpha, a, lda, x, incx, beta,
          y, incy, b, ldb,
          kx, ky, jx, jy, j,
          y0, b0, a2, b2, scaled, accumd

vars == <<routine, pc, err, side, uplo, transA, diag, m, n, k, alpha, a, lda,
          x, incx, beta, y, incy, b, ldb, kx, ky, jx, jy, j,
          y0, b0, a2, b2, scaled, accumd>>

(***************************************************************************)
(* Bounds of the explored input space.                                     *)
(***************************************************************************)
MaxN == 2
MaxK == 2
MaxM == 2
MaxSeed == 1

(***************************************************************************)
(* Small helpers.                                                          *)
(***************************************************************************)
max(p, q) == IF p >= q THEN p ELSE q
min(p, q) == IF p <= q THEN p ELSE q
Abs(p) == IF p < 0 THEN 0 - p ELSE p

None == "none"

\* character codes of the option letters
CH_l == 108
CH_r == 114
CH_u == 117
CH_n == 110
CH_t == 116
CH_c == 99

\* String.fromCharCode(c.charCodeAt(0) | 0x20): set bit 5 of the code
lowerChar(c) == IF (c \div 32) % 2 = 1 THEN c ELSE c + 32

Complex(re, im) == [re |-> re, im |-> im]

\* Matrix.colOfEx(col): offset such that offset + i addresses row i (1-based)
\* of column col in the 0-based column-major buffer.  A complex buffer
\* whose imaginary array is undefined has hasI = FALSE.
colOfEx(mat, col) == (col - 1) * mat.nrRows - 1

\* Matrix.setCol(col, rowStart, rowEnd, value)
setCol(mat, col, rowStart, rowEnd, v) ==
    [mat EXCEPT !.r = [idx \in DOMAIN mat.r |->
        IF /\ idx >= colOfEx(mat, col) + rowStart
           /\ idx <= colOfEx(mat, col) + rowEnd
        THEN v ELSE mat.r[idx]]]

(***************************************************************************)
(* Input data: buffers filled from a seed.                                 *)
(***************************************************************************)
Gen(s, idx) == (((idx + 1) * (s + 2) + idx * idx + s * s) % 5) - 2

Buffer(len, s) == [idx \in 0 .. (len - 1) |-> Gen(s, idx)]

Strides == {-2, -1, 1, 2}
Alphas == {Complex(0, 0), Complex(1, 0), Complex(0, 1), Complex(2, -1)}
Betas == {Complex(0, 0), Complex(1, 0), Complex(1, 1), Complex(2, 1)}
YBases == {0, 1}

\* length of a strided vector of cnt elements whose first index is 1 - base
VecLen(cnt, inc, base) == (max(cnt, 1) - 1) * max(Abs(inc), 1) + 2 - base

\* calls with valid arguments and varied data
ChbmvRich ==
    [uplo : {CH_u, CH_l}, n : 0 .. MaxN, k : 0 .. MaxK, pad : {0},
     incx : Strides, incy : Strides, alpha : Alphas, beta : Betas,
     seed : 0 .. MaxSeed, ybase : YBases, missing : {None}]

\* calls over all argument combinations, with fixed data
ChbmvThin ==
    [uplo : {CH_u, CH_l, 85, 76, 120}, n : -1 .. 1, k : -1 .. 1,
     pad : {-1, 0, 1}, incx : {-1, 0, 1}, incy : {-1, 0, 2},
     alpha : {Complex(1, 0)}, beta : {Complex(1, 0)},
     seed : {0}, ybase : {1}, missing : {None}]
    \cup
    [uplo : {CH_u, 120}, n : {-1, 1}, k : {0}, pad : {0}, incx : {1},
     incy : {0, 1}, alpha : {Complex(1, 0)}, beta : {Complex(0, 0)},
     seed : {0}, ybase : {1}, missing : {"a.i", "x.i", "y.i"}]

ChbmvInputs == ChbmvRich \cup ChbmvThin

(***************************************************************************)
(* chbmv                                                                   *)
(***************************************************************************)
ul == lowerChar(uplo)

alphaIsZero == alpha.re = 0 /\ alpha.im = 0
betaIsOne == beta.re = 1 /\ beta.im = 0
betaIsZero == beta.re = 0 /\ beta.im = 0

\* variant: the checks of n and k in the other order
ChbmvInfoSwapped ==
    IF ul # CH_u /\ ul # CH_l THEN 1
    ELSE IF k < 0 THEN 3
    ELSE IF n < 0 THEN 2
    ELSE IF lda < k + 1 THEN 6
    ELSE IF incx = 0 THEN 8
    ELSE IF incy = 0 THEN 11
    ELSE 0

\* the if / else-if chain of the argument checks
ChbmvInfo ==
    IF ul # CH_u /\ ul # CH_l THEN 1
    ELSE IF n < 0 THEN 2
    ELSE IF k < 0 THEN 3
    ELSE IF lda < k + 1 THEN 6
    ELSE IF incx = 0 THEN 8
    ELSE IF incy = 0 THEN 11
    ELSE 0

\* start positions of the strided vectors
KxStart == IF incx > 0 THEN 1 ELSE 1 - (n - 1) * incx
KyStart == IF incy > 0 THEN 1 ELSE 1 - (n - 1) * incy

ChbmvCall ==
    /\ pc = "idle"
    /\ \E c \in ChbmvInputs :
         LET ld == c.k + 1 + c.pad
             alen == max(ld, 1) * max(c.n, 1)
             xlen == VecLen(c.n, c.incx, 1)
             ylen == VecLen(c.n, c.incy, c.ybase)
         IN /\ uplo' = c.uplo
            /\ n' = c.n
            /\ k' = c.k
            /\ lda' = ld
            /\ incx' = c.incx
            /\ incy' = c.incy
            /\ alpha' = c.alpha
            /\ beta' = c.beta
            /\ a' = [nrRows |-> max(ld, 1),
                     r |-> Buffer(alen, c.seed),
                     i |-> Buffer(alen, c.seed + 1),
                     hasI |-> c.missing # "a.i"]
            /\ x' = [base |-> 1,
                     r |-> Buffer(xlen, c.seed + 2),
                     i |-> Buffer(xlen, c.seed + 3),
                     hasI |-> c.missing # "x.i"]
            /\ y' = [base |-> c.ybase,
                     r |-> Buffer(ylen, c.seed + 4),
                     i |-> Buffer(ylen, c.seed + 5),
                     hasI |-> c.missing # "y.i"]
    /\ y0' = y'
    /\ routine' = "chbmv"
    /\ pc' = "entry"
    /\ UNCHANGED <<err, side, transA, diag, m, b, ldb, kx, ky, jx, jy, j,
                   b0, a2, b2, scaled, accumd>>

\* lines 39-48: the imaginary parts must be present
ChbmvCheckIm ==
    /\ routine = "chbmv" /\ pc = "entry"
    /\ IF ~a.hasI
         THEN pc' = "thrown" /\ err' = [kind |-> "missingIm", what |-> "a.i"]
       ELSE IF ~x.hasI
         THEN pc' = "thrown" /\ err' = [kind |-> "missingIm", what |-> "x.i"]
       ELSE IF ~y.hasI
         THEN pc' = "thrown" /\ err' = [kind |-> "missingIm", what |-> "y.i"]
       ELSE pc' = "validate" /\ err' = err
    /\ UNCHANGED <<routine, side, uplo, transA, diag, m, n, k, alpha, a, lda,
                   x, incx, beta, y, incy, b, ldb, kx, ky, jx, jy, j,
                   y0, b0, a2, b2, scaled, accumd>>

\* lines 50-75: argument checks, errWrongArg('chbmv', info)
ChbmvValidate ==
    /\ routine = "chbmv" /\ pc = "validate"
    /\ IF ChbmvInfo # 0
         THEN /\ pc' = "thrown"
              /\ err' = [kind |-> "wrongArg", what |-> "chbmv", info |-> ChbmvInfo]
         ELSE /\ pc' = "quick"
              /\ err' = err
    /\ UNCHANGED <<routine, side, uplo, transA, diag, m, n, k, alpha, a, lda,
                   x, incx, beta, y, incy, b, ldb, kx, ky, jx, jy, j,
                   y0, b0, a2, b2, scaled, accumd>>

\* lines 84-87: quick return, else set up kx and ky
ChbmvQuick ==
    /\ routine = "chbmv" /\ pc = "quick"
    /\ IF n = 0 \/ (alphaIsZero /\ betaIsOne)
         THEN pc' = "returned" /\ UNCHANGED <<kx, ky>>
         ELSE pc' = "scale" /\ kx' = KxStart /\ ky' = KyStart
    /\ UNCHANGED <<routine, err, side, uplo, transA, diag, m, n, k, alpha, a,
                   lda, x, incx, beta, y, incy, b, ldb, jx, jy, j,
                   y0, b0, a2, b2, scaled, accumd>>

\* lines 96-100: the strided loop of the scaling pass, from element i on
RECURSIVE ScaleLoop(_, _, _)
ScaleLoop(i, iy, st) ==
    IF i > n THEN st
    ELSE LET inb == iy \in DOMAIN st.r
             nr == IF betaIsZero THEN 0
                   ELSE beta.re * st.r[iy] - beta.im * st.i[iy]
             r1 == IF inb THEN [st.r EXCEPT ![iy] = nr] ELSE st.r
             ni == IF betaIsZero THEN 0
                   ELSE beta.re * st.i[iy] + beta.im * r1[iy]
             i1 == IF inb THEN [st.i EXCEPT ![iy] = ni] ELSE st.i
         IN ScaleLoop(i + 1, iy + incy,
                      [r |-> r1, i |-> i1, seen |-> st.seen \cup {iy}])

\* line 89: the condition under which the scaling pass runs
ScaleGuard == betaIsOne

\* lines 89-102: the scaling pass
ScalePass ==
    IF ScaleGuard
    THEN IF betaIsZero /\ incy = 1
         THEN [r |-> [idx \in DOMAIN y.r |-> 0],
               i |-> [idx \in DOMAIN y.i |-> 0],
               seen |-> DOMAIN y.r]
         ELSE ScaleLoop(1, ky, [r |-> y.r, i |-> y.i, seen |-> {}])
    ELSE [r |-> y.r, i |-> y.i, seen |-> {}]

\* lines 89-106: scaling pass, return when alpha is zero, else set jx and jy
ChbmvScale ==
    /\ routine = "chbmv" /\ pc = "scale"
    /\ y' = [y EXCEPT !.r = ScalePass.r, !.i = ScalePass.i]
    /\ scaled' = ScalePass.seen
    /\ IF alphaIsZero
         THEN pc' = "returned" /\ UNCHANGED <<jx, jy, j>>
         ELSE /\ pc' = "accum"
              /\ jx' = kx - x.base
              /\ jy' = ky - y.base
              /\ j' = 1
    /\ UNCHANGED <<routine, err, side, uplo, transA, diag, m, n, k, alpha, a,
                   lda, x, incx, beta, incy, b, ldb, kx, ky,
                   y0, b0, a2, b2, accumd>>

\* alpha * x[jx]
Temp1 == Complex(alpha.re * x.r[jx] - alpha.im * x.i[jx],
                 alpha.re * x.i[jx] + alpha.im * x.r[jx])

\* variant: temp2 accumulates A[c]*x[ix] without the conjugation
AccumulateNoConj(st, c, ix, iy) ==
    [r |-> [st.r EXCEPT ![iy] = @ + Temp1.re * a.r[c] - Temp1.im * a.i[c]],
     i |-> [st.i EXCEPT ![iy] = @ + Temp1.re * a.i[c] + Temp1.im * a.r[c]],
     t2re |-> st.t2re + a.r[c] * x.r[ix] - a.i[c] * x.i[ix],
     t2im |-> st.t2im + a.r[c] * x.i[ix] + a.i[c] * x.r[ix],
     ix |-> ix, iy |-> iy, seen |-> st.seen \cup {iy}]

\* one iteration of an inner loop: y[iy] += temp1*A[c]; temp2 += conj(A[c])*x[ix]
Accumulate(st, c, ix, iy) ==
    [r |-> [st.r EXCEPT ![iy] = @ + Temp1.re * a.r[c] - Temp1.im * a.i[c]],
     i |-> [st.i EXCEPT ![iy] = @ + Temp1.re * a.i[c] + Temp1.im * a.r[c]],
     t2re |-> st.t2re + a.r[c] * x.r[ix] + a.i[c] * x.i[ix],
     t2im |-> st.t2im + a.r[c] * x.i[ix] - a.i[c] * x.r[ix],
     ix |-> ix, iy |-> iy, seen |-> st.seen \cup {iy}]

\* lines 122-130: inner loop of the upper layout
RECURSIVE UpperLoop(_, _)
UpperLoop(i, st) ==
    IF i > j - 1 THEN st
    ELSE LET nx == Accumulate(st, colOfEx(a, j) + (k + 1 - j) + i, st.ix, st.iy)
         IN UpperLoop(i + 1, [nx EXCEPT !.ix = st.ix + incx, !.iy = st.iy + incy])

\* lines 159-169: inner loop of the lower layout
RECURSIVE LowerLoop(_, _)
LowerLoop(i, st) ==
    IF i > min(n, j + k) THEN st
    ELSE LowerLoop(i + 1, Accumulate(st, colOfEx(a, j) + (1 - j) + i,
                                     st.ix + incx, st.iy + incy))

\* lines 110-140: column j of the upper layout
UpperColumn ==
    LET st == UpperLoop(max(1, j - k),
                        [r |-> y.r, i |-> y.i, t2re |-> 0, t2im |-> 0,
                         ix |-> kx - x.base, iy |-> ky - y.base, seen |-> {}])
        d == a.r[colOfEx(a, j) + k + 1]
    IN [r |-> [st.r EXCEPT ![st.iy] =
                  @ + Temp1.re * d + (alpha.re * st.t2re - alpha.im * st.t2im)],
        i |-> [st.i EXCEPT ![st.iy] =
                  @ + Temp1.im * d + (alpha.re * st.t2im + alpha.im * st.t2re)],
        seen |-> st.seen \cup {st.iy}]

\* lines 144-175: column j of the lower layout
LowerColumn ==
    LET d == a.r[colOfEx(a, j) + 1]
        st == LowerLoop(j + 1,
                        [r |-> [y.r EXCEPT ![jy] = @ + Temp1.re * d],
                         i |-> [y.i EXCEPT ![jy] = @ + Temp1.im * d],
                         t2re |-> 0, t2im |-> 0,
                         ix |-> jx, iy |-> jy, seen |-> {jy}])
    IN [r |-> [st.r EXCEPT ![jy] = @ + alpha.re * st.t2re - alpha.im * st.t2im],
        i |-> [st.i EXCEPT ![jy] = @ + alpha.re * st.t2im + alpha.im * st.t2re],
        seen |-> st.seen]

ChbmvUpperStep ==
    /\ routine = "chbmv" /\ pc = "accum" /\ ul = CH_u /\ j <= n
    /\ y' = [y EXCEPT !.r = UpperColumn.r, !.i = UpperColumn.i]
    /\ accumd' = accumd \cup UpperColumn.seen
    /\ jx' = jx + incx
    /\ jy' = jy + incy
    /\ IF j > k THEN kx' = kx + incx /\ ky' = ky + incy
                ELSE UNCHANGED <<kx, ky>>
    /\ j' = j + 1
    /\ UNCHANGED <<routine, pc, err, side, uplo, transA, diag, m, n, k, alpha,
                   a, lda, x, incx, beta, incy, b, ldb,
                   y0, b0, a2, b2, scaled>>

ChbmvLowerStep ==
    /\ routine = "chbmv" /\ pc = "accum" /\ ul # CH_u /\ j <= n
    /\ y' = [y EXCEPT !.r = LowerColumn.r, !.i = LowerColumn.i]
    /\ accumd' = accumd \cup LowerColumn.seen
    /\ jx' = jx + incx
    /\ jy' = jy + incy
    /\ j' = j + 1
    /\ UNCHANGED <<routine, pc, err, side, uplo, transA, diag, m, n, k, alpha,
                   a, lda, x, incx, beta, incy, b, ldb, kx, ky,
                   y0, b0, a2, b2, scaled>>

\* line 177: the loops are over
ChbmvReturn ==
    /\ routine = "chbmv" /\ pc = "accum" /\ j > n
    /\ pc' = "returned"
    /\ UNCHANGED <<routine, err, side, uplo, transA, diag, m, n, k, alpha, a,
                   lda, x, incx, beta, y, incy, b, ldb, kx, ky, jx, jy, j,
                   y0, b0, a2, b2, scaled, accumd>>

(***************************************************************************)
(* strmm                                                                   *)
(***************************************************************************)
RealAlphas == {0, 1, 2, -1}

\* calls with valid arguments and varied data
StrmmRich ==
    [side : {CH_l, CH_r}, uplo : {CH_u, CH_l}, transA : {CH_n, CH_t, CH_c},
     diag : {CH_u, CH_n}, m : 0 .. MaxM, n : 0 .. MaxN, alpha : RealAlphas,
     pada : {0, 1}, padb : {0}, seedA : 0 .. MaxSeed + 1, seedB : 0 .. MaxSeed + 1,
     given : {FALSE}]

\* calls over all argument combinations, with fixed data
StrmmThin ==
    [side : {CH_l, CH_r, 76, 120}, uplo : {CH_u, CH_l, 120},
     transA : {CH_n, CH_t, CH_c, 120}, diag : {CH_u, CH_n, 120},
     m : -1 .. 1, n : -1 .. 1, alpha : {1},
     pada : {-1, 0}, padb : {-1, 0}, seedA : {0}, seedB : {1}, given : {FALSE}]

\* the worked example: A = [3 5; . 7] upper, B = [1; 1], alpha = 2
ScenarioA == <<3, 0, 5, 7>>
ScenarioB == <<1, 1>>
StrmmScenario ==
    [side : {CH_l}, uplo : {CH_u}, transA : {CH_n}, diag : {CH_n},
     m : {2}, n : {1}, alpha : {2}, pada : {0}, padb : {0},
     seedA : {0}, seedB : {0}, given : {TRUE}]

StrmmInputs == StrmmRich \cup StrmmThin \cup StrmmScenario

si == lowerChar(side)
tr == lowerChar(transA)
di == lowerChar(diag)

lside == si = CH_l
nrowA == IF lside THEN m ELSE n
nounit == di = CH_n
upper == ul = CH_u

\* variant: the checks of m and n in the other order
StrmmInfoSwapped ==
    IF si \notin {CH_l, CH_r} THEN 1
    ELSE IF ul \notin {CH_u, CH_l} THEN 2
    ELSE IF tr \notin {CH_n, CH_t, CH_c} THEN 3
    ELSE IF di \notin {CH_u, CH_n} THEN 4
    ELSE IF n < 0 THEN 6
    ELSE IF m < 0 THEN 5
    ELSE IF lda < max(1, nrowA) THEN 9
    ELSE IF ldb < max(1, m) THEN 11
    ELSE 0

\* the if / else-if chain of the argument checks
StrmmInfo ==
    IF si \notin {CH_l, CH_r} THEN 1
    ELSE IF ul \notin {CH_u, CH_l} THEN 2
    ELSE IF tr \notin {CH_n, CH_t, CH_c} THEN 3
    ELSE IF di \notin {CH_u, CH_n} THEN 4
    ELSE IF m < 0 THEN 5
    ELSE IF n < 0 THEN 6
    ELSE IF lda < max(1, nrowA) THEN 9
    ELSE IF ldb < max(1, m) THEN 11
    ELSE 0

\* the entries of an order-rows matrix the operation is defined on: the strict
\* triangle chosen by uplo, and the diagonal unless it is taken as unit
RefEntry(up, nu, rows, row, col) ==
    /\ row \in 1 .. rows /\ col \in 1 .. rows
    /\ \/ up /\ row < col
       \/ ~up /\ row > col
       \/ nu /\ row = col

StrmmCall ==
    /\ pc = "idle"
    /\ \E c \in StrmmInputs :
         LET rows == IF lowerChar(c.side) = CH_l THEN c.m ELSE c.n
             ld == max(1, rows) + c.pada
             ldB == max(1, c.m) + c.padb
             alen == max(ld, 1) * max(rows, 1)
             blen == max(ldB, 1) * max(c.n, 1)
         IN /\ side' = c.side
            /\ uplo' = c.uplo
            /\ transA' = c.transA
            /\ diag' = c.diag
            /\ m' = c.m
            /\ n' = c.n
            /\ alpha' = c.alpha
            /\ lda' = ld
            /\ ldb' = ldB
            /\ a' = [nrRows |-> max(ld, 1),
                     r |-> IF c.given
                           THEN [idx \in 0 .. 3 |-> ScenarioA[idx + 1]]
                           ELSE Buffer(alen, c.seedA)]
            /\ b' = [nrRows |-> max(ldB, 1),
                     r |-> IF c.given
                           THEN [idx \in 0 .. 1 |-> ScenarioB[idx + 1]]
                           ELSE Buffer(blen, c.seedB + 2)]
    /\ b0' = b'
    /\ b2' = b'
    \* a second matrix that agrees with a on the referenced entries only
    /\ a2' = [a' EXCEPT !.r = [idx \in DOMAIN a'.r |->
                 IF RefEntry(upper', nounit', nrowA',
                             (idx % a'.nrRows) + 1, (idx \div a'.nrRows) + 1)
                 THEN a'.r[idx] ELSE a'.r[idx] + 3]]
    /\ routine' = "strmm"
    /\ pc' = "validate"
    /\ UNCHANGED <<err, k, x, incx, beta, y, incy, kx, ky, jx, jy, j,
                   y0, scaled, accumd>>

\* lines 49-77: argument checks, errWrongArg('strmm', info)
StrmmValidate ==
    /\ routine = "strmm" /\ pc = "validate"
    /\ IF StrmmInfo # 0
         THEN /\ pc' = "thrown"
              /\ err' = [kind |-> "wrongArg", what |-> "strmm", info |-> StrmmInfo]
         ELSE /\ pc' = "quick"
              /\ err' = err
    /\ UNCHANGED <<routine, side, uplo, transA, diag, m, n, k, alpha, a, lda,
                   x, incx, beta, y, incy, b, ldb, kx, ky, jx, jy, j,
                   y0, b0, a2, b2, scaled, accumd>>

\* variant: the loop stops one column early
RECURSIVE ZeroColsShort(_, _)
ZeroColsShort(mat, jj) ==
    IF jj >= n THEN mat ELSE ZeroColsShort(setCol(mat, jj, 1, m, 0), jj + 1)

\* lines 86-88: b.setCol(jj, 1, m, 0) for jj .. n
RECURSIVE ZeroCols(_, _)
ZeroCols(mat, jj) ==
    IF jj > n THEN mat ELSE ZeroCols(setCol(mat, jj, 1, m, 0), jj + 1)

\* outer loops that run downwards: lines 168 and 238
Descending == ~lside /\ ((tr = CH_n /\ upper) \/ (tr # CH_n /\ ~upper))

\* variant: alpha is tested before the dimensions and the whole buffer cleared
StrmmQuickZeroFirst ==
    /\ routine = "strmm" /\ pc = "quick"
    /\ IF alpha = 0
         THEN /\ pc' = "returned"
              /\ b' = [b EXCEPT !.r = [idx \in DOMAIN b.r |-> 0]]
              /\ b2' = [b2 EXCEPT !.r = [idx \in DOMAIN b2.r |-> 0]]
              /\ j' = j
       ELSE IF m = 0 \/ n = 0
         THEN pc' = "returned" /\ UNCHANGED <<b, b2, j>>
       ELSE /\ pc' = "loop"
            /\ j' = IF Descending THEN n ELSE 1
            /\ UNCHANGED <<b, b2>>
    /\ UNCHANGED <<routine, err, side, uplo, transA, diag, m, n, k, alpha, a,
                   lda, x, incx, beta, y, incy, ldb, kx, ky, jx, jy,
                   y0, b0, a2, scaled, accumd>>

\* lines 81-90: quick return, all-zero result when alpha is zero
StrmmQuick ==
    /\ routine = "strmm" /\ pc = "quick"
    /\ IF m = 0 \/ n = 0
         THEN pc' = "returned" /\ UNCHANGED <<b, b2, j>>
       ELSE IF alpha = 0
         THEN /\ pc' = "returned"
              /\ b' = ZeroCols(b, 1)
              /\ b2' = ZeroCols(b2, 1)
              /\ j' = j
       ELSE /\ pc' = "loop"
            /\ j' = IF Descending THEN n ELSE 1
            /\ UNCHANGED <<b, b2>>
    /\ UNCHANGED <<routine, err, side, uplo, transA, diag, m, n, k, alpha, a,
                   lda, x, incx, beta, y, incy, ldb, kx, ky, jx, jy,
                   y0, b0, a2, scaled, accumd>>

\* for (i = lo; i <= hi; i++) br[cb + i] += temp * src[cs + i]
Axpy(br, cb, lo, hi, temp, src, cs) ==
    [idx \in DOMAIN br |->
        IF idx >= cb + lo /\ idx <= cb + hi
        THEN br[idx] + temp * src[cs + (idx - cb)] ELSE br[idx]]

\* for (i = lo; i <= hi; i++) br[cb + i] *= temp
Scal(br, cb, lo, hi, temp) ==
    [idx \in DOMAIN br |->
        IF idx >= cb + lo /\ idx <= cb + hi THEN temp * br[idx] ELSE br[idx]]

\* sum over kk = lo .. hi of ar[ca + kk] * br[cb + kk]
RECURSIVE Dot(_, _, _, _, _, _)
Dot(ar, ca, br, cb, lo, hi) ==
    IF lo > hi THEN 0
    ELSE ar[ca + lo] * br[cb + lo] + Dot(ar, ca, br, cb, lo + 1, hi)

\* variant: the diagonal entry is never applied
TimesDiagNever(temp, mat, d) == temp

\* variant: the diagonal entry is applied whatever diag says
TimesDiagAlways(temp, mat, d) == temp * mat.r[colOfEx(mat, d) + d]

\* temp scaled by the diagonal entry A[d,d] when the diagonal is not unit
TimesDiag(temp, mat, d) ==
    IF nounit THEN temp * mat.r[colOfEx(mat, d) + d] ELSE temp

\* lines 100-110: B := alpha*A*B, A upper, column j, rows kk .. m
RECURSIVE LeftNoTransUpper(_, _, _)
LeftNoTransUpper(mat, br, kk) ==
    IF kk > m THEN br
    ELSE LET cb == colOfEx(b, j)
             temp == alpha * br[cb + kk]
             b1 == Axpy(br, cb, 1, kk - 1, temp, mat.r, colOfEx(mat, kk))
         IN IF br[cb + kk] # 0
            THEN LeftNoTransUpper(mat,
                     [b1 EXCEPT ![cb + kk] = TimesDiag(temp, mat, kk)], kk + 1)
            ELSE LeftNoTransUpper(mat, br, kk + 1)

\* lines 116-128: B := alpha*A*B, A lower, column j, rows kk down to 1
RECURSIVE LeftNoTransLower(_, _, _)
LeftNoTransLower(mat, br, kk) ==
    IF kk < 1 THEN br
    ELSE LET cb == colOfEx(b, j)
             temp == alpha * br[cb + kk]
             b1 == [br EXCEPT ![cb + kk] = TimesDiag(temp, mat, kk)]
         IN IF br[cb + kk] # 0
            THEN LeftNoTransLower(mat,
                     Axpy(b1, cb, kk + 1, m, temp, mat.r, colOfEx(mat, kk)),
                     kk - 1)
            ELSE LeftNoTransLower(mat, br, kk - 1)

\* lines 137-145: B := alpha*A**T*B, A upper, column j, rows i down to 1
RECURSIVE LeftTransUpper(_, _, _)
LeftTransUpper(mat, br, i) ==
    IF i < 1 THEN br
    ELSE LET cb == colOfEx(b, j)
             temp == TimesDiag(br[cb + i], mat, i)
                     + Dot(mat.r, colOfEx(mat, i), br, cb, 1, i - 1)
         IN LeftTransUpper(mat, [br EXCEPT ![cb + i] = alpha * temp], i - 1)

\* lines 151-159: B := alpha*A**T*B, A lower, column j, rows i .. m
RECURSIVE LeftTransLower(_, _, _)
LeftTransLower(mat, br, i) ==
    IF i > m THEN br
    ELSE LET cb == colOfEx(b, j)
             temp == TimesDiag(br[cb + i], mat, i)
                     + Dot(mat.r, colOfEx(mat, i), br, cb, i + 1, m)
         IN LeftTransLower(mat, [br EXCEPT ![cb + i] = alpha * temp], i + 1)

\* lines 178-186 and 200-209: column j of B += alpha*A[kk,j] * column kk of B
\* for kk = lo .. hi
RECURSIVE AddColumns(_, _, _, _)
AddColumns(mat, br, lo, hi) ==
    IF lo > hi THEN br
    ELSE LET akj == mat.r[colOfEx(mat, j) + lo]
         IN IF akj # 0
            THEN AddColumns(mat,
                     Axpy(br, colOfEx(b, j), 1, m, alpha * akj, br, colOfEx(b, lo)),
                     lo + 1, hi)
            ELSE AddColumns(mat, br, lo + 1, hi)

\* lines 169-177 and 192-199: scale column j, then add the other columns
RightNoTrans(mat, br, lo, hi) ==
    AddColumns(mat, Scal(br, colOfEx(b, j), 1, m, TimesDiag(alpha, mat, j)), lo, hi)

\* lines 219-227 and 241-249: column jj of B += alpha*A[jj,j] * column j of B
\* for jj = lo .. hi  (j is the outer index, k in the source)
RECURSIVE SpreadColumn(_, _, _, _)
SpreadColumn(mat, br, lo, hi) ==
    IF lo > hi THEN br
    ELSE LET ajk == mat.r[colOfEx(mat, j) + lo]
         IN IF ajk # 0
            THEN SpreadColumn(mat,
                     Axpy(br, colOfEx(b, lo), 1, m, alpha * ajk, br, colOfEx(b, j)),
                     lo + 1, hi)
            ELSE SpreadColumn(mat, br, lo + 1, hi)

\* lines 228-234 and 250-256: spread column j, then scale it unless temp is 1
RightTrans(mat, br, lo, hi) ==
    LET b1 == SpreadColumn(mat, br, lo, hi)
        temp == TimesDiag(alpha, mat, j)
    IN IF temp # 1 THEN Scal(b1, colOfEx(b, j), 1, m, temp) ELSE b1

\* one iteration of the outer loop of the selected branch, on matrix mat and
\* the B buffer br
Branch(mat, br) ==
    IF lside
    THEN IF tr = CH_n
         THEN IF upper THEN LeftNoTransUpper(mat, br, 1)
                       ELSE LeftNoTransLower(mat, br, m)
         ELSE IF upper THEN LeftTransUpper(mat, br, m)
                       ELSE LeftTransLower(mat, br, 1)
    ELSE IF tr = CH_n
         THEN IF upper THEN RightNoTrans(mat, br, 1, j - 1)
                       ELSE RightNoTrans(mat, br, j + 1, n)
         ELSE IF upper THEN RightTrans(mat, br, 1, j - 1)
                       ELSE RightTrans(mat, br, j + 1, n)

StrmmFrame ==
    UNCHANGED <<routine, pc, err, side, uplo, transA, diag, m, n, k, alpha, a,
                lda, x, incx, beta, y, incy, ldb, kx, ky, jx, jy,
                y0, b0, a2, scaled, accumd>>

\* an iteration of an outer loop that counts upwards
StrmmStepUp ==
    /\ routine = "strmm" /\ pc = "loop" /\ ~Descending /\ j <= n
    /\ b' = [b EXCEPT !.r = Branch(a, b.r)]
    /\ b2' = [b2 EXCEPT !.r = Branch(a2, b2.r)]
    /\ j' = j + 1
    /\ StrmmFrame

\* an iteration of an outer loop that counts downwards
StrmmStepDown ==
    /\ routine = "strmm" /\ pc = "loop" /\ Descending /\ j >= 1
    /\ b' = [b EXCEPT !.r = Branch(a, b.r)]
    /\ b2' = [b2 EXCEPT !.r = Branch(a2, b2.r)]
    /\ j' = j - 1
    /\ StrmmFrame

\* line 261: the loops are over
StrmmReturn ==
    /\ routine = "strmm" /\ pc = "loop" /\ (j > n \/ j < 1)
    /\ pc' = "returned"
    /\ UNCHANGED <<routine, err, side, uplo, transA, diag, m, n, k, alpha, a,
                   lda, x, incx, beta, y, incy, b, ldb, kx, ky, jx, jy, j,
                   y0, b0, a2, b2, scaled, accumd>>

(***************************************************************************)
(* Specification                                                           *)
(***************************************************************************)
Init ==
    /\ routine = None /\ pc = "idle" /\ err = None
    /\ side = 0 /\ uplo = 0 /\ transA = 0 /\ diag = 0
    /\ m = 0 /\ n = 0 /\ k = 0 /\ lda = 0 /\ ldb = 0 /\ incx = 0 /\ incy = 0
    /\ alpha = 0 /\ beta = 0
    /\ a = None /\ x = None /\ y = None /\ b = None
    /\ kx = 0 /\ ky = 0 /\ jx = 0 /\ jy = 0 /\ j = 0
    /\ y0 = None /\ b0 = None /\ a2 = None /\ b2 = None
    /\ scaled = {} /\ accumd = {}

Next ==
    \/ ChbmvCall
    \/ ChbmvCheckIm
    \/ ChbmvValidate
    \/ ChbmvQuick
    \/ ChbmvScale
    \/ ChbmvUpperStep
    \/ ChbmvLowerStep
    \/ ChbmvReturn
    \/ StrmmCall
    \/ StrmmValidate
    \/ StrmmQuick
    \/ StrmmStepUp
    \/ StrmmStepDown
    \/ StrmmReturn

Spec == Init /\ [][Next]_vars

(***************************************************************************)
(* Reference definitions used by the properties                            *)
(***************************************************************************)
CAdd(p, q) == Complex(p.re + q.re, p.im + q.im)
CMul(p, q) == Complex(p.re * q.re - p.im * q.im, p.re * q.im + p.im * q.re)
Conj(p) == Complex(p.re, 0 - p.im)

\* buffer position of logical element i of a vector of n elements
Pos(i, inc, base) ==
    (IF inc > 0 THEN 1 + (i - 1) * inc ELSE 1 + (n - i) * (0 - inc)) - base

XAt(i) == Complex(x.r[Pos(i, incx, x.base)], x.i[Pos(i, incx, x.base)])
YAt(vec, i) == Complex(vec.r[Pos(i, incy, vec.base)], vec.i[Pos(i, incy, vec.base)])
Addressed == {Pos(i, incy, y.base) : i \in 1 .. n}

\* entry (row, col) of the band storage of a
BandAt(row, col) ==
    Complex(a.r[colOfEx(a, col) + row], a.i[colOfEx(a, col) + row])

\* entry (row, col) of the dense Hermitian matrix the band storage stands for
Herm(row, col) ==
    IF row = col
      THEN Complex(BandAt(IF ul = CH_u THEN k + 1 ELSE 1, col).re, 0)
    ELSE IF Abs(row - col) > k THEN Complex(0, 0)
    ELSE IF ul = CH_u
      THEN IF row < col THEN BandAt(k + 1 + row - col, col)
                        ELSE Conj(BandAt(k + 1 + col - row, row))
      ELSE IF row > col THEN BandAt(1 + row - col, col)
                        ELSE Conj(BandAt(1 + col - row, row))

\* (A*x)[row], summed over columns col .. n
RECURSIVE HermTimesX(_, _)
HermTimesX(row, col) ==
    IF col > n THEN Complex(0, 0)
    ELSE CAdd(CMul(Herm(row, col), XAt(col)), HermTimesX(row, col + 1))

\* alpha*A*x + bt*y0, element i
DenseHbmv(bt, i) ==
    CAdd(CMul(alpha, HermTimesX(i, 1)), CMul(bt, YAt(y0, i)))

\* entry (row, col) of the B buffers
BAt(mat, row, col) == mat.r[colOfEx(mat, col) + row]

\* the triangular matrix T: A with the other triangle zero, unit diagonal on request
Tri(row, col) ==
    IF row = col THEN (IF nounit THEN BAt(a, row, col) ELSE 1)
    ELSE IF (upper /\ row < col) \/ (~upper /\ row > col) THEN BAt(a, row, col)
    ELSE 0

OpTri(row, col) == IF tr = CH_n THEN Tri(row, col) ELSE Tri(col, row)

\* (op(T)*B0)[row, col], summed over p .. m
RECURSIVE LeftProduct(_, _, _)
LeftProduct(row, col, p) ==
    IF p > m THEN 0
    ELSE OpTri(row, p) * BAt(b0, p, col) + LeftProduct(row, col, p + 1)

\* (B0*op(T))[row, col], summed over p .. n
RECURSIVE RightProduct(_, _, _)
RightProduct(row, col, p) ==
    IF p > n THEN 0
    ELSE BAt(b0, row, p) * OpTri(p, col) + RightProduct(row, col, p + 1)

DenseTrmm(row, col) ==
    alpha * (IF lside THEN LeftProduct(row, col, 1) ELSE RightProduct(row, col, 1))

\* position reported for the first check that fails, 0 when none does
RECURSIVE FirstFailing(_, _)
FirstFailing(checks, p) ==
    IF p > Len(checks) THEN 0
    ELSE IF checks[p][1] THEN checks[p][2]
    ELSE FirstFailing(checks, p + 1)

ChbmvChecks ==
    << <<lowerChar(uplo) \notin {CH_u, CH_l}, 1>>, <<n < 0, 2>>, <<k < 0, 3>>,
       <<lda < k + 1, 6>>, <<incx = 0, 8>>, <<incy = 0, 11>> >>

StrmmChecks ==
    << <<lowerChar(side) \notin {CH_l, CH_r}, 1>>,
       <<lowerChar(uplo) \notin {CH_u, CH_l}, 2>>,
       <<lowerChar(transA) \notin {CH_n, CH_t, CH_c}, 3>>,
       <<lowerChar(diag) \notin {CH_u, CH_n}, 4>>,
       <<m < 0, 5>>, <<n < 0, 6>>,
       <<lda < max(1, IF lowerChar(side) = CH_l THEN m ELSE n), 9>>,
       <<ldb < max(1, m), 11>> >>

ChbmvDone == routine = "chbmv" /\ pc = "returned"
StrmmDone == routine = "strmm" /\ pc = "returned"
Checked == pc \in {"thrown", "quick", "scale", "accum", "loop", "returned"}

(***************************************************************************)
(* Properties                                                              *)
(***************************************************************************)

\* C1: after a valid chbmv call every addressed element of y equals
\* alpha*A*x + beta*y_before for the dense Hermitian band matrix A.
C1_DenseResult ==
    ChbmvDone => \A i \in 1 .. n : YAt(y, i) = DenseHbmv(beta, i)

\* C2: after a valid strmm call with m, n >= 1 and alpha # 0 the m x n block
\* of B equals the dense product alpha*op(T)*B_before or alpha*B_before*op(T);
\* the worked example yields B = [16; 14].
C2_DenseProduct ==
    /\ (StrmmDone /\ m >= 1 /\ n >= 1 /\ alpha # 0) =>
          \A row \in 1 .. m, col \in 1 .. n : BAt(b, row, col) = DenseTrmm(row, col)
    /\ (StrmmDone /\ a.r = [idx \in 0 .. 3 |-> ScenarioA[idx + 1]]
          /\ b0.r = [idx \in 0 .. 1 |-> ScenarioB[idx + 1]]
          /\ lside /\ upper /\ tr = CH_n /\ nounit /\ alpha = 2) =>
          (BAt(b, 1, 1) = 16 /\ BAt(b, 2, 1) = 14)

C2_Witness ==
    /\ StrmmDone /\ b0.r = [idx \in 0 .. 1 |-> ScenarioB[idx + 1]]
    /\ a.r = [idx \in 0 .. 3 |-> ScenarioA[idx + 1]]
    /\ BAt(b, 1, 1) = 16 /\ BAt(b, 2, 1) = 14

\* C3: after a valid chbmv call with n >= 1 and alpha = 0 every addressed
\* element of y equals beta*y_before.
C3_AlphaZeroScales ==
    (ChbmvDone /\ n >= 1 /\ alphaIsZero) =>
        \A i \in 1 .. n : YAt(y, i) = CMul(beta, YAt(y0, i))

\* C4: with the imaginary buffers present, chbmv raises the invalid-argument
\* error exactly when a check fails, reports the position of the first
\* failing check, and leaves y unchanged when it raises.
C4_ChbmvValidation ==
    (routine = "chbmv" /\ Checked /\ a.hasI /\ x.hasI /\ y.hasI) =>
        /\ (pc = "thrown") <=> (FirstFailing(ChbmvChecks, 1) # 0)
        /\ (pc = "thrown") =>
              /\ err = [kind |-> "wrongArg", what |-> "chbmv",
                        info |-> FirstFailing(ChbmvChecks, 1)]
              /\ y = y0

C4_Witness ==
    /\ routine = "chbmv" /\ pc = "thrown" /\ err.kind = "wrongArg"
    /\ err.info = 6 /\ incx = 0 /\ incy = 0

\* C5: strmm raises the invalid-argument error exactly when a check fails,
\* reports the position of the first failing check (an invalid side always
\* as 1), and leaves B unchanged when it raises.
C5_StrmmValidation ==
    (routine = "strmm" /\ Checked) =>
        /\ (pc = "thrown") <=> (FirstFailing(StrmmChecks, 1) # 0)
        /\ (pc = "thrown") =>
              /\ err = [kind |-> "wrongArg", what |-> "strmm",
                        info |-> FirstFailing(StrmmChecks, 1)]
              /\ b = b0
        /\ (lowerChar(side) \notin {CH_l, CH_r}) => (pc = "thrown" /\ err.info = 1)

C5_Witness ==
    /\ routine = "strmm" /\ pc = "thrown" /\ err.info = 9
    /\ ~lside /\ lda < n /\ lda >= m /\ ldb < max(1, m)

\* C6: two strmm calls whose matrices A agree on the referenced triangle
\* (and on the diagonal when it is not unit) leave the same B.
C6_ReferencedOnly ==
    (routine = "strmm" /\ pc \in {"loop", "returned"}) => b2 = b

C6_Witness ==
    /\ StrmmDone /\ ~nounit /\ m = 2 /\ n = 2 /\ alpha # 0
    /\ b # b0
    /\ \A row \in 1 .. nrowA : BAt(a, row, row) # BAt(a2, row, row)

\* C7: after a valid strmm call with m, n >= 1 and alpha = 0 every element
\* of the m x n block of B is zero.
C7_AlphaZeroClears ==
    (StrmmDone /\ m >= 1 /\ n >= 1 /\ alpha = 0) =>
        \A row \in 1 .. m, col \in 1 .. n : BAt(b, row, col) = 0

C7_Witness ==
    /\ StrmmDone /\ m = 2 /\ n = 2 /\ alpha = 0
    /\ \E row \in 1 .. m, col \in 1 .. n : BAt(b0, row, col) # 0

\* C8: the early exits (chbmv with n = 0, or alpha = 0 and beta = 1; strmm
\* with m = 0 or n = 0) leave the output buffer as it was.
C8_EarlyExitFrame ==
    /\ (ChbmvDone /\ (n = 0 \/ (alphaIsZero /\ betaIsOne))) => y = y0
    /\ (StrmmDone /\ (m = 0 \/ n = 0)) => b = b0

C8_Witness ==
    /\ ChbmvDone /\ n = 2 /\ alphaIsZero /\ betaIsOne /\ y = y0
    /\ \E i \in 1 .. n : YAt(y0, i) # Complex(0, 0)

\* C9: with beta = 1 and alpha # 0 a valid chbmv call leaves
\* y = y_before + alpha*A*x, in both layouts, for every k and both stride signs.
C9_Accumulation ==
    (ChbmvDone /\ n >= 1 /\ betaIsOne /\ ~alphaIsZero) =>
        \A i \in 1 .. n : YAt(y, i) = DenseHbmv(Complex(1, 0), i)

C9_Witness ==
    /\ ChbmvDone /\ betaIsOne /\ alpha.im # 0 /\ n = 2 /\ k >= n
    /\ incx < 0 /\ incy < 0 /\ ul = CH_l
    /\ Herm(2, 1).im # 0
    /\ y # y0

\* C10: every index of y that chbmv touches is an addressed position
\* (ky - y.base) + t*incy, and the scaling pass and the accumulation pass
\* touch the same elements.
C10_TouchedAddressed ==
    (routine = "chbmv" /\ pc \in {"accum", "returned"} /\ n >= 1) =>
        /\ scaled \subseteq Addressed
        /\ accumd \subseteq Addressed
        /\ (pc = "returned" /\ scaled # {} /\ accumd # {}) => scaled = accumd

====
